---- MODULE Spec2Model ----
(***************************************************************************)
(* pve-hardware-metrics: the collector of src/src/pve_hardware_metrics.py. *)
(* A Python str is a sequence of one-character strings, a Python dict is   *)
(* a sequence of [k, v] items with unique keys in insertion order, a       *)
(* Python list is a sequence.                                              *)
(***************************************************************************)
EXTENDS Integers, Sequences, FiniteSets, TLC

(* ------------------------- string literals of the code ----------------- *)
S_temp == <<"t", "e", "m", "p">>
S_temp1 == <<"t", "e", "m", "p", "1">>
S_temp_ == <<"t", "e", "m", "p", "_">>
S_Adapter == <<"A", "d", "a", "p", "t", "e", "r">>
S_sensors_dot == <<"s", "e", "n", "s", "o", "r", "s", ".">>
S_smartctl_dot == <<"s", "m", "a", "r", "t", "c", "t", "l", ".">>
S_nvme == <<"n", "v", "m", "e">>
S_system == <<"s", "y", "s", "t", "e", "m">>
S_qemu == <<"q", "e", "m", "u">>
S_disk == <<"d", "i", "s", "k">>
S_running == <<"r", "u", "n", "n", "i", "n", "g">>
S_sda1 == <<"s", "d", "a", "1">>
S_slash == <<"/">>

S_nvme_log == <<"n", "v", "m", "e", "_", "s", "m", "a", "r", "t", "_", "h", "e", "a", "l", "t", "h", "_", "i", "n", "f", "o", "r", "m", "a", "t", "i", "o", "n", "_", "l", "o", "g">>
S_ata_attrs == <<"a", "t", "a", "_", "s", "m", "a", "r", "t", "_", "a", "t", "t", "r", "i", "b", "u", "t", "e", "s">>
S_table == <<"t", "a", "b", "l", "e">>

(* ------------------------------ str methods ---------------------------- *)
Uppers == <<"A", "B", "C", "D", "E", "F", "G", "H", "I", "J", "K", "L", "M",
            "N", "O", "P", "Q", "R", "S", "T", "U", "V", "W", "X", "Y", "Z">>
Lowers == <<"a", "b", "c", "d", "e", "f", "g", "h", "i", "j", "k", "l", "m",
            "n", "o", "p", "q", "r", "s", "t", "u", "v", "w", "x", "y", "z">>
Digits == {"0", "1", "2", "3", "4", "5", "6", "7", "8", "9"}
Whitespace == {" ", "\n"}

LowerChar(c) ==
    IF \E i \in 1..26 : Uppers[i] = c
    THEN Lowers[CHOOSE i \in 1..26 : Uppers[i] = c]
    ELSE c

\* s.lower()
str_lower(s) == [i \in 1..Len(s) |-> LowerChar(s[i])]

\* s.replace(old, new) for one-character old and new
str_replace(s, old, new) == [i \in 1..Len(s) |-> IF s[i] = old THEN new ELSE s[i]]

\* s.startswith(p)
str_startswith(s, p) == Len(p) <= Len(s) /\ SubSeq(s, 1, Len(p)) = p

\* sub in s
str_contains(sub, s) ==
    \E i \in 1..(Len(s) - Len(sub) + 1) : SubSeq(s, i, i + Len(sub) - 1) = sub

\* s.split(c)[0]: the part of s before the first c, all of s without one
str_split_first(s, c) ==
    IF \E i \in 1..Len(s) : s[i] = c
    THEN SubSeq(s, 1, (CHOOSE i \in 1..Len(s) :
                          s[i] = c /\ \A j \in 1..(i - 1) : s[j] # c) - 1)
    ELSE s

\* s.rfind(c): the 0-based index of the last c in s, -1 without one
str_rfind(s, c) ==
    IF \E i \in 1..Len(s) : s[i] = c
    THEN (CHOOSE i \in 1..Len(s) :
             s[i] = c /\ \A j \in (i + 1)..Len(s) : s[j] # c) - 1
    ELSE -1

\* s[:k], a negative k counting from the end
str_prefix(s, k) ==
    LET n == IF k < 0 THEN Len(s) + k ELSE k
    IN  SubSeq(s, 1, IF n < 0 THEN 0 ELSE IF n > Len(s) THEN Len(s) ELSE n)

(* ------------------------------ dict methods --------------------------- *)
Item(k, v) == [k |-> k, v |-> v]

dict_has(d, k) == \E i \in 1..Len(d) : d[i].k = k

dict_get(d, k) == d[CHOOSE i \in 1..Len(d) : d[i].k = k].v

\* d[k] = v: an existing key keeps its place and takes the new value
dict_set(d, k, v) ==
    IF dict_has(d, k)
    THEN [i \in 1..Len(d) |-> IF d[i].k = k THEN Item(k, v) ELSE d[i]]
    ELSE Append(d, Item(k, v))

dict_keys(d) == [i \in 1..Len(d) |-> d[i].k]

(* --------------------------- sensor normalizer ------------------------- *)
\* the end of the run of digits of s that starts at i (i - 1: no digit at i)
RECURSIVE DigitRunEnd(_, _)
DigitRunEnd(s, i) ==
    IF i <= Len(s) /\ s[i] \in Digits THEN DigitRunEnd(s, i + 1) ELSE i - 1

\* the length of the match of temp\d+_ that starts at i, 0 without one
TempMatchLen(s, i) ==
    IF i + 3 <= Len(s) /\ SubSeq(s, i, i + 3) = S_temp
    THEN LET j == DigitRunEnd(s, i + 4)
         IN  IF j >= i + 4 /\ j + 1 <= Len(s) /\ s[j + 1] = "_"
             THEN j + 2 - i
             ELSE 0
    ELSE 0

RECURSIVE re_sub_from(_, _)
re_sub_from(s, i) ==
    IF i > Len(s) THEN <<>>
    ELSE LET n == TempMatchLen(s, i)
         IN  IF n > 0
             THEN S_temp_ \o re_sub_from(s, i + n)
             ELSE <<s[i]>> \o re_sub_from(s, i + 1)

\* a slip: the pattern is temp\d, so a pass takes one digit and no more
RECURSIVE re_sub_one_digit(_)
re_sub_one_digit(field_key) ==
    IF Len(field_key) < 5 THEN field_key
    ELSE IF SubSeq(field_key, 1, 4) = S_temp /\ field_key[5] \in Digits
    THEN S_temp \o re_sub_one_digit(SubSeq(field_key, 6, Len(field_key)))
    ELSE <<field_key[1]>> \o re_sub_one_digit(Tail(field_key))

\* a slip: the index after "temp" is left in place
re_sub_temp_skipped(field_key) == field_key

\* re.sub(r"temp\d+_", "temp_", field_key): leftmost matches, left to right
re_sub_temp(field_key) == re_sub_from(field_key, 1)

\* a slip: the spaces of the grouping key are kept
sensor_field_key_keeps_spaces(key, field) ==
    LET composed ==
            IF key = S_temp1 /\ str_contains(S_temp1, str_lower(field))
            THEN str_lower(field)
            ELSE str_lower(key) \o <<"_">> \o str_lower(field)
    IN  re_sub_temp(composed)

\* the field key of one reading
sensor_field_key(key, field) ==
    LET composed ==
            IF key = S_temp1 /\ str_contains(S_temp1, str_lower(field))
            THEN str_lower(field)
            ELSE str_replace(str_lower(key), " ", "_") \o <<"_">> \o str_lower(field)
    IN  re_sub_temp(composed)

\* the inner loop: the readings of one grouping key
RECURSIVE sensor_group_fields(_, _, _, _)
sensor_group_fields(fields, key, value, i) ==
    IF i > Len(value) THEN fields
    ELSE sensor_group_fields(
             dict_set(fields, sensor_field_key(key, value[i].k), value[i].v),
             key, value, i + 1)

\* the loop over the items of one chip, "Adapter" skipped
RECURSIVE sensor_chip_fields(_, _, _)
sensor_chip_fields(fields, details, i) ==
    IF i > Len(details) THEN fields
    ELSE IF details[i].k = S_Adapter
         THEN sensor_chip_fields(fields, details, i + 1)
         ELSE sensor_chip_fields(
                  sensor_group_fields(fields, details[i].k, details[i].v, 1),
                  details, i + 1)

Measurement(name, tags, fields) ==
    [measurement |-> name, tags |-> tags, fields |-> fields]

RECURSIVE parse_sensors_from(_, _, _)
parse_sensors_from(host, sensors_data, i) ==
    IF i > Len(sensors_data) THEN <<>>
    ELSE LET sensor  == sensors_data[i].k
             details == sensors_data[i].v
         IN  <<Measurement(S_sensors_dot \o str_split_first(sensor, "-"),
                           <<Item("host", host),
                             Item("adapter", dict_get(details, S_Adapter))>>,
                           sensor_chip_fields(<<>>, details, 1))>>
             \o parse_sensors_from(host, sensors_data, i + 1)

\* a slip: a chip without readings is left out
parse_sensors_data_skip_empty(host, sensors_data) ==
    SelectSeq(parse_sensors_from(host, sensors_data, 1), LAMBDA m : m.fields # <<>>)

parse_sensors_data(host, sensors_data) == parse_sensors_from(host, sensors_data, 1)

(* ------------------------- JSON values and results --------------------- *)
\* a JSON number or list as Python holds it
JInt(n)    == [t |-> "int", n |-> n]
JFloat(n)  == [t |-> "float", n |-> n]
JList(xs)  == [t |-> "list", items |-> xs]
JStr(s)    == [t |-> "str", s |-> s]

\* how a call ends: it returns val, calls sys.exit(val), or raises val
Ok(v)     == [kind |-> "ok", val |-> v]
Exit(c)   == [kind |-> "exit", val |-> c]
Raise(e)  == [kind |-> "raise", val |-> e]

\* a finished process: its return code and its standard output
Proc(rc, stdout) == [rc |-> rc, stdout |-> stdout]
\* standard output meant as JSON: malformed, or well-formed with the value the
\* tool prints (an object of chips, a list of block devices, a SMART report,
\* a list of filesystems)
JsonText(v) == [valid |-> TRUE, val |-> v]
BadJsonText == [valid |-> FALSE, val |-> <<>>]

\* json.loads(text)
json_loads(text) == IF text.valid THEN Ok(text.val) ELSE Raise("JSONDecodeError")

\* run(..., check=True) raises CalledProcessError on a non-zero return code
run_command(proc) == IF proc.rc # 0 THEN Exit(1) ELSE Ok(proc.stdout)

get_sensors_data(proc) ==
    LET out == run_command(proc)
    IN  IF out.kind # "ok" THEN out
        ELSE LET parsed == json_loads(out.val)
             IN  IF parsed.kind = "raise" THEN Ok(<<>>) ELSE parsed

\* the names of the block devices of type "disk", in the lister's order
RECURSIVE disk_names(_, _)
disk_names(blockdevices, i) ==
    IF i > Len(blockdevices) THEN <<>>
    ELSE (IF blockdevices[i].type = "disk" THEN <<blockdevices[i].name>> ELSE <<>>)
         \o disk_names(blockdevices, i + 1)

\* a slip: malformed JSON is taken for an empty disk list, as the readers do
get_disks_lenient(proc) ==
    LET out == run_command(proc)
    IN  IF out.kind # "ok" THEN out
        ELSE LET result == json_loads(out.val)
             IN  IF result.kind = "raise" THEN Ok(<<>>)
                 ELSE Ok(disk_names(result.val, 1))

get_disks(proc) ==
    LET out == run_command(proc)
    IN  IF out.kind # "ok" THEN out
        ELSE LET result == json_loads(out.val)
             IN  IF result.kind = "raise" THEN Exit(1)
                 ELSE Ok(disk_names(result.val, 1))

get_smartctl_data(proc) ==
    LET out == run_command(proc)
    IN  IF out.kind # "ok" THEN out
        ELSE LET parsed == json_loads(out.val)
             IN  IF parsed.kind = "raise" THEN Ok(<<>>) ELSE parsed

(* ---------------------------- SMART normalizer ------------------------- *)
\* the decimal string of a positive index
RECURSIVE str_of_nat(_)
str_of_nat(n) ==
    LET d == <<"0", "1", "2", "3", "4", "5", "6", "7", "8", "9">>
    IN  IF n < 10 THEN <<d[n + 1]>> ELSE str_of_nat(n \div 10) \o <<d[(n % 10) + 1]>>

\* a slip: the index of an exploded element starts at 0
RECURSIVE nvme_list_fields_zero_based(_, _, _, _)
nvme_list_fields_zero_based(stats, key, value, i) ==
    IF i > Len(value) THEN stats
    ELSE nvme_list_fields_zero_based(
             dict_set(stats, key \o <<"_">> \o str_of_nat(i - 1), value[i]),
             key, value, i + 1)

\* for i, item in enumerate(value): stats[f"{key}_{i + 1}"] = item
RECURSIVE nvme_list_fields(_, _, _, _)
nvme_list_fields(stats, key, value, i) ==
    IF i > Len(value) THEN stats
    ELSE nvme_list_fields(
             dict_set(stats, key \o <<"_">> \o str_of_nat(i), value[i]),
             key, value, i + 1)

RECURSIVE nvme_fields(_, _, _)
nvme_fields(stats, nvme_data, i) ==
    IF i > Len(nvme_data) THEN stats
    ELSE LET key   == nvme_data[i].k
             value == nvme_data[i].v
         IN  nvme_fields(
                 IF value.t = "list"
                 THEN nvme_list_fields(stats, key, value.items, 1)
                 ELSE dict_set(stats, key, value),
                 nvme_data, i + 1)

parse_nvme_smartctl_data(host, disk, data) ==
    LET nvme_data == IF dict_has(data, S_nvme_log) THEN dict_get(data, S_nvme_log)
                     ELSE <<>>
    IN  Measurement(S_smartctl_dot \o disk, <<Item("host", host)>>,
                    nvme_fields(<<>>, nvme_data, 1))

TEMPERATURE_CELSIUS_ID == 194
PERCENT_LIFETIME_REMAIN_ID == 202

\* re.search(r"(\d+)", raw_string): the first run of digits, <<>> without one
first_digits(raw_string) ==
    IF \E i \in 1..Len(raw_string) : raw_string[i] \in Digits
    THEN LET i == CHOOSE i \in 1..Len(raw_string) :
                      /\ raw_string[i] \in Digits
                      /\ \A j \in 1..(i - 1) : raw_string[j] \notin Digits
         IN  SubSeq(raw_string, i, DigitRunEnd(raw_string, i))
    ELSE <<>>

DigitValue(c) == CHOOSE n \in 0..9 : str_of_nat(n) = <<c>>

\* float(match.group(1))
RECURSIVE float_of_digits(_)
float_of_digits(ds) ==
    IF Len(ds) = 0 THEN 0
    ELSE 10 * float_of_digits(SubSeq(ds, 1, Len(ds) - 1)) + DigitValue(ds[Len(ds)])

\* a slip: the lifetime attribute reads the raw value like the others
sata_value_raw_lifetime(attribute) ==
    LET match == first_digits(attribute.raw.string)
    IN  IF attribute.id = TEMPERATURE_CELSIUS_ID /\ match # <<>>
        THEN JFloat(float_of_digits(match))
        ELSE attribute.raw.value

\* a slip: a temperature without digits takes the normalized value
sata_value_normalized_fallback(attribute) ==
    LET match == first_digits(attribute.raw.string)
    IN  IF attribute.id = TEMPERATURE_CELSIUS_ID
        THEN (IF match # <<>> THEN JFloat(float_of_digits(match)) ELSE attribute.value)
        ELSE IF attribute.id = PERCENT_LIFETIME_REMAIN_ID THEN attribute.value
        ELSE attribute.raw.value

\* the value the if/elif/else stores for one attribute: the elif and the else
\* are also where a temperature without digits ends
sata_value(attribute) ==
    LET attribute_id     == attribute.id
        raw_value        == attribute.raw.value
        raw_string       == attribute.raw.string
        normalized_value == attribute.value
        match            == first_digits(raw_string)
    IN  IF attribute_id = TEMPERATURE_CELSIUS_ID /\ match # <<>>
        THEN JFloat(float_of_digits(match))
        ELSE IF attribute_id = PERCENT_LIFETIME_REMAIN_ID THEN normalized_value
        ELSE raw_value

\* name.lower().replace("-", "_")
sata_name(attribute) == str_replace(str_lower(attribute.name), "-", "_")

RECURSIVE sata_fields(_, _, _)
sata_fields(stats, sata_data, i) ==
    IF i > Len(sata_data) THEN stats
    ELSE sata_fields(dict_set(stats, sata_name(sata_data[i]), sata_value(sata_data[i])),
                     sata_data, i + 1)

parse_sata_smartctl_data(host, disk, data) ==
    LET attrs     == IF dict_has(data, S_ata_attrs) THEN dict_get(data, S_ata_attrs)
                     ELSE <<>>
        sata_data == IF dict_has(attrs, S_table) THEN dict_get(attrs, S_table)
                     ELSE <<>>
    IN  Measurement(S_smartctl_dot \o disk, <<Item("host", host)>>,
                    sata_fields(<<>>, sata_data, 1))

\* a slip: "nvme" anywhere in the name selects the NVMe extractor
parse_smartctl_data_by_substring(host, disk, data) ==
    IF str_contains(S_nvme, disk)
    THEN parse_nvme_smartctl_data(host, disk, data)
    ELSE parse_sata_smartctl_data(host, disk, data)

parse_smartctl_data(host, disk, data) ==
    IF str_startswith(disk, S_nvme)
    THEN parse_nvme_smartctl_data(host, disk, data)
    ELSE parse_sata_smartctl_data(host, disk, data)

(* ----------------------------- VM enumeration -------------------------- *)
\* s.strip()
RECURSIVE str_lstrip(_)
str_lstrip(s) ==
    IF Len(s) > 0 /\ s[1] \in Whitespace THEN str_lstrip(Tail(s)) ELSE s

RECURSIVE str_rstrip(_)
str_rstrip(s) ==
    IF Len(s) > 0 /\ s[Len(s)] \in Whitespace
    THEN str_rstrip(SubSeq(s, 1, Len(s) - 1))
    ELSE s

str_strip(s) == str_rstrip(str_lstrip(s))

\* s.split(sep) for a one-character sep: Len(result) is 1 + the number of sep
RECURSIVE str_split(_, _)
str_split(s, sep) ==
    IF \E i \in 1..Len(s) : s[i] = sep
    THEN LET i == CHOOSE i \in 1..Len(s) :
                      s[i] = sep /\ \A j \in 1..(i - 1) : s[j] # sep
         IN  <<SubSeq(s, 1, i - 1)>> \o str_split(SubSeq(s, i + 1, Len(s)), sep)
    ELSE <<s>>

\* s.split(): the maximal runs of non-whitespace characters
RECURSIVE str_split_ws(_)
str_split_ws(s) ==
    LET t == str_lstrip(s)
    IN  IF Len(t) = 0 THEN <<>>
        ELSE LET n == IF \E i \in 1..Len(t) : t[i] \in Whitespace
                      THEN (CHOOSE i \in 1..Len(t) :
                               /\ t[i] \in Whitespace
                               /\ \A j \in 1..(i - 1) : t[j] \notin Whitespace) - 1
                      ELSE Len(t)
             IN  <<SubSeq(t, 1, n)>> \o str_split_ws(SubSeq(t, n + 1, Len(t)))

\* the comprehension of get_vms: a pair per line that contains "running";
\* vm_info.split()[1] raises IndexError on a line of one word
RECURSIVE running_vms(_, _)
running_vms(vm_list, i) ==
    IF i > Len(vm_list) THEN Ok(<<>>)
    ELSE IF ~str_contains(S_running, vm_list[i]) THEN running_vms(vm_list, i + 1)
    ELSE LET words == str_split_ws(vm_list[i])
         IN  IF Len(words) < 2 THEN Raise("IndexError")
             ELSE LET rest == running_vms(vm_list, i + 1)
                  IN  IF rest.kind # "ok" THEN rest
                      ELSE Ok(<<<<words[1], words[2]>>>> \o rest.val)

get_vms(proc) ==
    LET out == run_command(proc)
    IN  IF out.kind # "ok" THEN out
        ELSE running_vms(Tail(str_split(str_strip(out.val), "\n")), 1)

get_vm_disk_data(proc) == run_command(proc)

(* ---------------------------- VM disk normalizer ----------------------- *)
\* a slip: the mount point is not looked at
RECURSIVE total_used_bytes_any_mount(_, _)
total_used_bytes_any_mount(fsinfo, i) ==
    IF i > Len(fsinfo) THEN 0
    ELSE (IF fsinfo[i].name = S_sda1 THEN fsinfo[i].used_bytes ELSE 0)
         + total_used_bytes_any_mount(fsinfo, i + 1)

RECURSIVE total_used_bytes(_, _)
total_used_bytes(fsinfo, i) ==
    IF i > Len(fsinfo) THEN 0
    ELSE (IF fsinfo[i].name = S_sda1 /\ fsinfo[i].mountpoint = S_slash
          THEN fsinfo[i].used_bytes ELSE 0)
         + total_used_bytes(fsinfo, i + 1)

\* json.loads(data) is not guarded: a JSONDecodeError leaves the function
parse_vm_disk_data(host, vm_id, vm_name, data) ==
    LET fsinfo == json_loads(data)
    IN  IF fsinfo.kind = "raise" THEN fsinfo
        ELSE Ok(Measurement(S_system,
                            <<Item("host", vm_name), Item("nodename", host),
                              Item("object", S_qemu), Item("vmid", vm_id)>>,
                            <<Item(S_disk, JFloat(total_used_bytes(fsinfo.val, 1)))>>))

(* ------------------------------ orchestrator --------------------------- *)
\* a slip: the namespace suffix is kept
smart_disk_name_untrimmed(disk) == disk

\* the device queried and named: an "nvme" name is cut at its last "n"
smart_disk_name(disk) ==
    IF str_startswith(disk, S_nvme) THEN str_prefix(disk, str_rfind(disk, "n"))
    ELSE disk

\* parse_smartctl_data(host, disk_name, get_smartctl_data(disk_name))
smart_measurement(host, disk_name, proc) ==
    LET data == get_smartctl_data(proc)
    IN  IF data.kind # "ok" THEN data
        ELSE Ok(parse_smartctl_data(host, disk_name, data.val))

\* parse_vm_disk_data(host, vm_id, vm_name, get_vm_disk_data(vm_id))
vm_measurement(host, vm, proc) ==
    LET data == get_vm_disk_data(proc)
    IN  IF data.kind # "ok" THEN data
        ELSE parse_vm_disk_data(host, vm[1], vm[2], data.val)

\* a slip: if args.delete is not None
delete_requested_not_none(a) == a.delete.given

\* if args.delete: None and the empty string are both false
delete_requested(a) == a.delete.given /\ a.delete.name # <<>>

\* a slip: the VM stage runs whatever the flag says
after_disks_unguarded(vm_disk) == "vms"

\* where collect_measurements goes once the disks are done
after_disks(vm_disk) == IF vm_disk THEN "vms" ELSE "publish"

(* ------------------------- what the host can answer -------------------- *)
MaxDisks == 2
MaxVms == 2

K_Core0 == <<"C", "o", "r", "e", " ", "0">>
L_temp1_input == <<"t", "e", "m", "p", "1", "_", "i", "n", "p", "u", "t">>
L_temp2_input == <<"t", "e", "m", "p", "2", "_", "i", "n", "p", "u", "t">>
Chip_coretemp == <<"c", "o", "r", "e", "t", "e", "m", "p", "-", "i", "s", "a", "-", "0", "0", "0", "0">>
Chip_acpitz == <<"a", "c", "p", "i", "t", "z", "-", "a", "c", "p", "i", "-", "0">>
Adapter_ISA == <<"I", "S", "A", " ", "a", "d", "a", "p", "t", "e", "r">>
Adapter_ACPI == <<"A", "C", "P", "I", " ", "i", "n", "t", "e", "r", "f", "a", "c", "e">>
Host_pve1 == <<"p", "v", "e", "1">>
Host_pve2 == <<"p", "v", "e", "2">>
D_sda == <<"s", "d", "a">>
D_nvme0n1 == <<"n", "v", "m", "e", "0", "n", "1">>
D_sr0 == <<"s", "r", "0">>
D_nvme0 == <<"n", "v", "m", "e", "0">>
A_temperature == <<"t", "e", "m", "p", "e", "r", "a", "t", "u", "r", "e">>
A_temperature_sensors == <<"t", "e", "m", "p", "e", "r", "a", "t", "u", "r", "e", "_", "s", "e", "n", "s", "o", "r", "s">>
N_Temperature_Celsius == <<"T", "e", "m", "p", "e", "r", "a", "t", "u", "r", "e", "_", "C", "e", "l", "s", "i", "u", "s">>
N_Power_On_Hours == <<"P", "o", "w", "e", "r", "_", "O", "n", "_", "H", "o", "u", "r", "s">>
R_41_minmax == <<"4", "1", " ", "(", "M", "i", "n", "/", "M", "a", "x", " ", "2", "4", "/", "4", "4", ")">>
R_1200 == <<"1", "2", "0", "0">>
F_sda15 == <<"s", "d", "a", "1", "5">>
F_boot_efi == <<"/", "b", "o", "o", "t", "/", "e", "f", "i">>
Q_header == <<"V", "M", "I", "D", " ", "N", "A", "M", "E", " ", "S", "T", "A", "T", "U", "S">>
Q_100 == <<"1", "0", "0", " ", "w", "e", "b", " ", "r", "u", "n", "n", "i", "n", "g">>
Q_101 == <<"1", "0", "1", " ", "d", "b", " ", "s", "t", "o", "p", "p", "e", "d">>
Q_102 == <<"1", "0", "2", " ", "c", "a", "c", "h", "e", " ", "r", "u", "n", "n", "i", "n", "g">>
M_sensors_acpitz == <<"s", "e", "n", "s", "o", "r", "s", ".", "a", "c", "p", "i", "t", "z">>

InjSeqs(S, n) ==
    UNION {{s \in [1..k -> S] : \A i, j \in 1..k : i # j => s[i] # s[j]} : k \in 0..n}

Hosts == {Host_pve1, Host_pve2}
DeleteArgs == {[given |-> FALSE, name |-> <<>>], [given |-> TRUE, name |-> <<>>],
               [given |-> TRUE, name |-> M_sensors_acpitz]}
Args == [vm_disk : BOOLEAN, test : BOOLEAN, delete : DeleteArgs]

SensorsSample ==
    <<Item(Chip_acpitz, <<Item(S_Adapter, Adapter_ACPI),
                          Item(S_temp1, <<Item(L_temp1_input, JFloat(27))>>)>>),
      Item(Chip_coretemp, <<Item(S_Adapter, Adapter_ISA),
                            Item(K_Core0, <<Item(L_temp2_input, JFloat(37))>>)>>)>>
SensorProcs == {Proc(1, BadJsonText), Proc(0, BadJsonText),
                Proc(0, JsonText(<<>>)), Proc(0, JsonText(SensorsSample))}

BlockDevices == {[name |-> D_sda, type |-> "disk"], [name |-> D_nvme0n1, type |-> "disk"],
                 [name |-> D_sr0, type |-> "rom"]}
\* a listing whose NVMe disk is named without a namespace suffix
SuffixlessListing == <<[name |-> D_nvme0, type |-> "disk"]>>
LsblkProcs == {Proc(1, BadJsonText), Proc(0, BadJsonText)}
              \cup {Proc(0, JsonText(devs)) : devs \in InjSeqs(BlockDevices, MaxDisks)}
              \cup {Proc(0, JsonText(SuffixlessListing))}

NvmeSample ==
    <<Item(S_nvme_log, <<Item(A_temperature, JInt(48)),
                         Item(A_temperature_sensors, JList(<<JInt(48), JInt(61)>>))>>)>>
SataSample ==
    <<Item(S_ata_attrs, <<Item(S_table,
        <<[id |-> 194, name |-> N_Temperature_Celsius, value |-> JInt(59),
           raw |-> [value |-> JInt(188), string |-> R_41_minmax]],
          [id |-> 9, name |-> N_Power_On_Hours, value |-> JInt(99),
           raw |-> [value |-> JInt(1200), string |-> R_1200]]>>)>>)>>
SmartProcs(disk_name) ==
    {Proc(1, BadJsonText), Proc(0, BadJsonText), Proc(0, JsonText(<<>>)),
     Proc(0, JsonText(IF str_startswith(disk_name, S_nvme) THEN NvmeSample
                      ELSE SataSample))}

VmLines == {Q_100, Q_101, Q_102}
RECURSIVE JoinLines(_)
JoinLines(ls) == IF Len(ls) = 0 THEN <<>> ELSE <<"\n">> \o Head(ls) \o JoinLines(Tail(ls))
QmListProcs == {Proc(1, <<>>)}
               \cup {Proc(0, Q_header \o JoinLines(ls)) : ls \in InjSeqs(VmLines, MaxVms)}

FsinfoSample ==
    <<[name |-> F_sda15, mountpoint |-> F_boot_efi, used_bytes |-> 12],
      [name |-> S_sda1, mountpoint |-> S_slash, used_bytes |-> 24]>>
FsinfoProcs == {Proc(1, BadJsonText), Proc(0, BadJsonText),
                Proc(0, JsonText(<<>>)), Proc(0, JsonText(FsinfoSample))}

(* ------------------- inputs of a normalizer called alone --------------- *)
MaxReadings == 2

K_Temp1 == <<"T", "e", "m", "p", "1">>
L_TEMP1_MAX == <<"T", "E", "M", "P", "1", "_", "M", "A", "X">>
L_temp12_crit == <<"t", "e", "m", "p", "1", "2", "_", "c", "r", "i", "t">>
L_in0_input == <<"i", "n", "0", " ", "i", "n", "p", "u", "t">>
L_temp7 == <<"t", "e", "m", "p", "7">>
A_temperature_sensors_1 == <<"t", "e", "m", "p", "e", "r", "a", "t", "u", "r", "e", "_", "s", "e", "n", "s", "o", "r", "s", "_", "1">>
A_Critical_Warning == <<"C", "r", "i", "t", "i", "c", "a", "l", "_", "W", "a", "r", "n", "i", "n", "g">>
N_Power_Dash_On_Hours == <<"P", "o", "w", "e", "r", "-", "O", "n", "_", "H", "o", "u", "r", "s">>
R_dash == <<"-">>
V_na == <<"N", "/", "A">>
Chip_k10temp == <<"k", "1", "0", "t", "e", "m", "p">>
D_nvm0 == <<"n", "v", "m", "0">>
D_NVME0 == <<"N", "V", "M", "E", "0">>
D_xnvme0 == <<"x", "n", "v", "m", "e", "0">>
V_100 == <<"1", "0", "0">>
V_103 == <<"1", "0", "3">>
V_web == <<"w", "e", "b">>
V_running_man == <<"r", "u", "n", "n", "i", "n", "g", "-", "m", "a", "n">>
V_stopped == <<"s", "t", "o", "p", "p", "e", "d">>

GroupKeys == {S_temp1, K_Core0, K_Temp1}
Labels == {L_temp1_input, L_temp2_input, L_TEMP1_MAX, L_temp12_crit, L_in0_input,
           L_temp7}

\* a chip built reading by reading, as a JSON object is: a grouping key appears
\* once, and a label once inside its grouping key
RECURSIVE ChipOf(_, _, _)
ChipOf(details, readings, i) ==
    IF i > Len(readings) THEN details
    ELSE LET key   == readings[i][1]
             label == readings[i][2]
             group == IF dict_has(details, key) THEN dict_get(details, key) ELSE <<>>
         IN  ChipOf(dict_set(details, key, dict_set(group, label, JFloat(i))),
                    readings, i + 1)

SensorInputs ==
    {<<Item(Chip_coretemp, ChipOf(<<Item(S_Adapter, Adapter_ISA)>>, r, 1))>> :
        r \in InjSeqs(GroupKeys \X Labels, MaxReadings)}

NvmeAttributes == {A_temperature, A_temperature_sensors, A_temperature_sensors_1,
                   A_Critical_Warning}
NvmeValues == {JInt(5), JStr(V_na), JList(<<JInt(48)>>), JList(<<JInt(48), JInt(61)>>)}
NvmeLogs ==
    UNION {{[i \in 1..Len(ks) |-> Item(ks[i], vs[i])] : vs \in [1..Len(ks) -> NvmeValues]} :
              ks \in InjSeqs(NvmeAttributes, MaxReadings)}
NvmeInputs == {<<>>} \cup {<<Item(S_nvme_log, log)>> : log \in NvmeLogs}

SataNames == {N_Temperature_Celsius, N_Power_On_Hours, N_Power_Dash_On_Hours}
SataShapes ==
    [id : {TEMPERATURE_CELSIUS_ID, PERCENT_LIFETIME_REMAIN_ID, 9},
     value : {JInt(59)},
     raw : [value : {JInt(188)}, string : {R_41_minmax, R_dash}]]
SataTables ==
    UNION {{[i \in 1..Len(ns) |-> [id |-> sh[i].id, name |-> ns[i],
                                   value |-> sh[i].value, raw |-> sh[i].raw]] :
               sh \in [1..Len(ns) -> SataShapes]} :
              ns \in InjSeqs(SataNames, MaxReadings)}
SataInputs == {<<>>} \cup {<<Item(S_ata_attrs, <<Item(S_table, t)>>)>> : t \in SataTables}

\* several chips at once: a chip with nothing but its adapter, a chip with a
\* reading, a chip whose adapter comes after a reading
MaxChips == 2
ChipNames == {Chip_coretemp, Chip_acpitz, Chip_k10temp}
ChipDetails ==
    {<<Item(S_Adapter, Adapter_ISA)>>,
     <<Item(S_Adapter, Adapter_ACPI), Item(S_temp1, <<Item(L_temp1_input, JFloat(45))>>)>>,
     <<Item(K_Core0, <<Item(L_temp2_input, JFloat(38))>>), Item(S_Adapter, Adapter_ISA)>>}
ChipLists ==
    UNION {{[i \in 1..Len(ns) |-> Item(ns[i], ds[i])] : ds \in [1..Len(ns) -> ChipDetails]} :
              ns \in InjSeqs(ChipNames, MaxChips)}

\* disk names around the prefix "nvme", and SMART reports that hold the NVMe
\* log, the ATA table, both or neither
DispatchDisks == {D_sda, D_nvme0, S_nvme, D_nvm0, D_NVME0, D_xnvme0}
DispatchInputs == {<<>>, NvmeSample, SataSample, NvmeSample \o SataSample}

\* the filesystems a guest agent reports, a record more than once if it likes
MaxFilesystems == 2
Filesystems == [name : {S_sda1, F_sda15}, mountpoint : {S_slash, F_boot_efi},
                used_bytes : {12, 24}]
FsinfoLists == UNION {[1..k -> Filesystems] : k \in 0..MaxFilesystems}
VmPairs == {<<V_100, V_web>>, <<V_103, V_running_man>>}

\* the listing of qm list: the header, then a line per VM
VmRows == [id : {V_100, V_103}, name : {V_web, V_running_man},
           status : {S_running, V_stopped}]
QmLine(row) == row.id \o <<" ">> \o row.name \o <<" ">> \o row.status
QmText(rows) == Q_header \o JoinLines([i \in 1..Len(rows) |-> QmLine(rows[i])])
QmListings == InjSeqs(VmRows, MaxVms)

NormCalls ==
    {[fn |-> "parse_sensors_data", host |-> h, disk |-> <<>>, data |-> d] :
        h \in Hosts, d \in SensorInputs}
    \cup {[fn |-> "parse_smartctl_data", host |-> h, disk |-> D_nvme0, data |-> d] :
        h \in Hosts, d \in NvmeInputs}
    \cup {[fn |-> "parse_smartctl_data", host |-> h, disk |-> D_sda, data |-> d] :
        h \in Hosts, d \in SataInputs}
    \cup {[fn |-> "parse_sensors_data", host |-> h, disk |-> <<>>, data |-> d] :
        h \in Hosts, d \in ChipLists}
    \cup {[fn |-> "parse_smartctl_data", host |-> h, disk |-> k, data |-> d] :
        h \in Hosts, k \in DispatchDisks, d \in DispatchInputs}
    \cup {[fn |-> "parse_vm_disk_data", host |-> h, vm |-> vm, data |-> JsonText(d)] :
        h \in Hosts, vm \in VmPairs, d \in FsinfoLists}
    \cup {[fn |-> "get_vms", data |-> Proc(0, QmText(rows)), rows |-> rows] : rows \in QmListings}

(* --------------------------------- state ------------------------------- *)
VARIABLES
    args,           \* the parsed command line
    host,           \* HOST_NAME or the host's own name
    pc,             \* where main is
    outcome,        \* "running", or how main ended
    measurements,   \* the batch collect_measurements is building
    disks,          \* the disks the SMART loop has still to visit
    vms,            \* the VMs the VM loop has still to visit
    commands,       \* every command run so far, with what it answered
    delete_calls,   \* the arguments of each call of delete_measurement
    upload_calls,   \* the arguments of each call of upload_measurements
    printed,        \* the batches logged in test mode
    norm_pc,        \* a normalizer called on its own: "idle", "call", "done"
    norm_in,        \* its arguments
    norm_out        \* what it returned

norm_vars == <<norm_pc, norm_in, norm_out>>
main_vars == <<args, host, pc, outcome, measurements, disks, vms, commands,
               delete_calls, upload_calls, printed>>
vars == <<main_vars, norm_vars>>

Ran(cmd, arg, proc) == [cmd |-> cmd, arg |-> arg, proc |-> proc]

\* sys.exit(code) or an exception nobody catches ends the program
Ended(r) ==
    IF r.kind = "exit" THEN (IF r.val = 0 THEN "exit0" ELSE "exit1") ELSE "raised"

Init ==
    /\ args \in Args
    /\ host = Host_pve1
    /\ pc = "main"
    /\ outcome = "running"
    /\ measurements = <<>>
    /\ disks = <<>>
    /\ vms = <<>>
    /\ commands = <<>>
    /\ delete_calls = <<>>
    /\ upload_calls = <<>>
    /\ printed = <<>>
    /\ norm_pc = "idle"
    /\ norm_in = <<>>
    /\ norm_out = <<>>

\* main, the delete branch: delete_measurement, then sys.exit(0); the client's
\* context manager turns any failure into sys.exit(1)
MainDelete ==
    /\ pc = "main"
    /\ delete_requested(args)
    /\ delete_calls' = Append(delete_calls, args.delete.name)
    /\ \E stored \in BOOLEAN : outcome' = Ended(Exit(IF stored THEN 0 ELSE 1))
    /\ pc' = "exited"
    /\ UNCHANGED norm_vars
    /\ UNCHANGED <<args, host, measurements, disks, vms, commands, upload_calls, printed>>

\* main calls collect_measurements
MainCollect ==
    /\ pc = "main"
    /\ ~delete_requested(args)
    /\ pc' = "sensors"
    /\ UNCHANGED norm_vars
    /\ UNCHANGED <<args, host, outcome, measurements, disks, vms, commands,
                   delete_calls, upload_calls, printed>>

CollectSensors ==
    /\ pc = "sensors"
    /\ \E proc \in SensorProcs :
          LET data == get_sensors_data(proc)
          IN  /\ commands' = Append(commands, Ran("sensors", <<>>, proc))
              /\ IF data.kind = "ok"
                 THEN /\ measurements' = parse_sensors_data(host, data.val)
                      /\ pc' = "disks"
                      /\ UNCHANGED outcome
                 ELSE /\ pc' = "exited"
                      /\ outcome' = Ended(data)
                      /\ UNCHANGED measurements
    /\ UNCHANGED norm_vars
    /\ UNCHANGED <<args, host, disks, vms, delete_calls, upload_calls, printed>>

CollectDisks ==
    /\ pc = "disks"
    /\ \E proc \in LsblkProcs :
          LET found == get_disks(proc)
          IN  /\ commands' = Append(commands, Ran("lsblk", <<>>, proc))
              /\ IF found.kind = "ok"
                 THEN /\ disks' = found.val
                      /\ pc' = IF found.val = <<>> THEN after_disks(args.vm_disk)
                               ELSE "smart"
                      /\ UNCHANGED outcome
                 ELSE /\ pc' = "exited"
                      /\ outcome' = Ended(found)
                      /\ UNCHANGED disks
    /\ UNCHANGED norm_vars
    /\ UNCHANGED <<args, host, measurements, vms, delete_calls, upload_calls, printed>>

\* one pass of the loop over the disks
CollectSmart ==
    /\ pc = "smart"
    /\ LET disk_name == smart_disk_name(Head(disks))
       IN  \E proc \in SmartProcs(disk_name) :
              LET m == smart_measurement(host, disk_name, proc)
              IN  /\ commands' = Append(commands, Ran("smartctl", disk_name, proc))
                  /\ IF m.kind = "ok"
                     THEN /\ measurements' = Append(measurements, m.val)
                          /\ disks' = Tail(disks)
                          /\ pc' = IF Tail(disks) = <<>> THEN after_disks(args.vm_disk)
                                   ELSE "smart"
                          /\ UNCHANGED outcome
                     ELSE /\ pc' = "exited"
                          /\ outcome' = Ended(m)
                          /\ UNCHANGED <<measurements, disks>>
    /\ UNCHANGED norm_vars
    /\ UNCHANGED <<args, host, vms, delete_calls, upload_calls, printed>>

CollectVms ==
    /\ pc = "vms"
    /\ \E proc \in QmListProcs :
          LET found == get_vms(proc)
          IN  /\ commands' = Append(commands, Ran("qm list", <<>>, proc))
              /\ IF found.kind = "ok"
                 THEN /\ vms' = found.val
                      /\ pc' = IF found.val = <<>> THEN "publish" ELSE "vmdisk"
                      /\ UNCHANGED outcome
                 ELSE /\ pc' = "exited"
                      /\ outcome' = Ended(found)
                      /\ UNCHANGED vms
    /\ UNCHANGED norm_vars
    /\ UNCHANGED <<args, host, measurements, disks, delete_calls, upload_calls, printed>>

\* one pass of the loop over the running VMs
CollectVmDisk ==
    /\ pc = "vmdisk"
    /\ \E proc \in FsinfoProcs :
          LET vm == Head(vms)
              m  == vm_measurement(host, vm, proc)
          IN  /\ commands' = Append(commands, Ran("qm agent", vm[1], proc))
              /\ IF m.kind = "ok"
                 THEN /\ measurements' = Append(measurements, m.val)
                      /\ vms' = Tail(vms)
                      /\ pc' = IF Tail(vms) = <<>> THEN "publish" ELSE "vmdisk"
                      /\ UNCHANGED outcome
                 ELSE /\ pc' = "exited"
                      /\ outcome' = Ended(m)
                      /\ UNCHANGED <<measurements, vms>>
    /\ UNCHANGED norm_vars
    /\ UNCHANGED <<args, host, disks, delete_calls, upload_calls, printed>>

\* main in test mode logs the batch and returns
MainPrint ==
    /\ pc = "publish"
    /\ args.test
    /\ printed' = Append(printed, measurements)
    /\ pc' = "exited"
    /\ outcome' = "return"
    /\ UNCHANGED norm_vars
    /\ UNCHANGED <<args, host, measurements, disks, vms, commands, delete_calls,
                   upload_calls>>

\* main hands the batch to upload_measurements; a failed write is sys.exit(1)
MainUpload ==
    /\ pc = "publish"
    /\ ~args.test
    /\ upload_calls' = Append(upload_calls, measurements)
    /\ pc' = "exited"
    /\ \E written \in BOOLEAN : outcome' = IF written THEN "return" ELSE Ended(Exit(1))
    /\ UNCHANGED norm_vars
    /\ UNCHANGED <<args, host, measurements, disks, vms, commands, delete_calls,
                   printed>>

Next ==
    \/ MainDelete
    \/ MainCollect
    \/ CollectSensors
    \/ CollectDisks
    \/ CollectSmart
    \/ CollectVms
    \/ CollectVmDisk
    \/ MainPrint
    \/ MainUpload

Spec == Init /\ [][Next]_vars

(* ---------------------- a normalizer called on its own ----------------- *)
NormInit ==
    /\ args = [vm_disk |-> FALSE, test |-> FALSE, delete |-> [given |-> FALSE, name |-> <<>>]]
    /\ host = Host_pve1
    /\ pc = "idle"
    /\ outcome = "running"
    /\ measurements = <<>>
    /\ disks = <<>>
    /\ vms = <<>>
    /\ commands = <<>>
    /\ delete_calls = <<>>
    /\ upload_calls = <<>>
    /\ printed = <<>>
    /\ norm_pc = "call"
    /\ norm_in \in NormCalls
    /\ norm_out = <<>>

CallParseSensors ==
    /\ norm_pc = "call"
    /\ norm_in.fn = "parse_sensors_data"
    /\ norm_out' = parse_sensors_data(norm_in.host, norm_in.data)
    /\ norm_pc' = "done"
    /\ UNCHANGED <<norm_in, main_vars>>

CallParseSmartctl ==
    /\ norm_pc = "call"
    /\ norm_in.fn = "parse_smartctl_data"
    /\ norm_out' = <<parse_smartctl_data(norm_in.host, norm_in.disk, norm_in.data)>>
    /\ norm_pc' = "done"
    /\ UNCHANGED <<norm_in, main_vars>>

CallParseVmDisk ==
    /\ norm_pc = "call"
    /\ norm_in.fn = "parse_vm_disk_data"
    /\ norm_out' = parse_vm_disk_data(norm_in.host, norm_in.vm[1], norm_in.vm[2],
                                      norm_in.data)
    /\ norm_pc' = "done"
    /\ UNCHANGED <<norm_in, main_vars>>

CallGetVms ==
    /\ norm_pc = "call"
    /\ norm_in.fn = "get_vms"
    /\ norm_out' = get_vms(norm_in.data)
    /\ norm_pc' = "done"
    /\ UNCHANGED <<norm_in, main_vars>>

NormNext ==
    \/ CallParseSensors
    \/ CallParseSmartctl
    \/ CallParseVmDisk
    \/ CallGetVms

NormSpec == NormInit /\ [][NormNext]_vars

(* ======================= properties of the collector ==================== *)
E_temp1_input == <<"t", "e", "m", "p", "1", "_", "i", "n", "p", "u", "t">>
E_temp_input == <<"t", "e", "m", "p", "_", "i", "n", "p", "u", "t">>
E_core_0_temp_input == <<"c", "o", "r", "e", "_", "0", "_", "t", "e", "m", "p", "_", "i", "n", "p", "u", "t">>
E_core_0_temp_crit == <<"c", "o", "r", "e", "_", "0", "_", "t", "e", "m", "p", "_", "c", "r", "i", "t">>

\* collect_measurements has returned its batch to main
Returned == pc = "publish" \/ printed # <<>> \/ upload_calls # <<>>

\* the log entries of one command, in the order they ran
Runs(cmd) == SelectSeq(commands, LAMBDA e : e.cmd = cmd)

IsMalformed(e) ==
    e.cmd \in {"sensors", "lsblk", "smartctl", "qm agent"}
    /\ e.proc.rc = 0 /\ ~e.proc.stdout.valid

\* the batch the enumeration results and the readings call for: sensors is
\* the answer of the sensor reader, lsblk of the disk lister, smart of each
\* SMART read in order, qm of the VM lister, fsinfo of each agent query in order
ExpectedSensors(sensors) == parse_sensors_data(host, get_sensors_data(sensors).val)
ExpectedSmart(found, smart) ==
    [i \in 1..Len(found) |->
        parse_smartctl_data(host, smart_disk_name(found[i]),
                            get_smartctl_data(smart[i].proc).val)]
ExpectedVmDisk(found, fsinfo) ==
    [i \in 1..Len(found) |->
        parse_vm_disk_data(host, found[i][1], found[i][2], fsinfo[i].proc.stdout).val]

\* C1: the batch collect_measurements returns is the sensor measurements, then
\* one SMART measurement per enumerated disk in order, then, only with the
\* flag, one VM-disk measurement per enumerated VM in order; without the flag
\* no VM command runs and no measurement is named "system".
C1_BatchOrder ==
    /\ pc = "publish" =>
          LET found_disks == get_disks(Runs("lsblk")[1].proc).val
              smart       == Runs("smartctl")
              found_vms   == get_vms(Runs("qm list")[1].proc).val
              fsinfo      == Runs("qm agent")
          IN  /\ Len(smart) = Len(found_disks)
              /\ args.vm_disk => Len(fsinfo) = Len(found_vms)
              /\ measurements =
                    ExpectedSensors(Runs("sensors")[1].proc)
                    \o ExpectedSmart(found_disks, smart)
                    \o (IF args.vm_disk THEN ExpectedVmDisk(found_vms, fsinfo) ELSE <<>>)
    /\ ~args.vm_disk =>
          /\ \A i \in 1..Len(commands) : commands[i].cmd \notin {"qm list", "qm agent"}
          /\ \A i \in 1..Len(measurements) : measurements[i].measurement # S_system

C1_Witness ==
    /\ pc = "publish" /\ args.vm_disk
    /\ Len(Runs("smartctl")) = 2 /\ Len(Runs("qm agent")) = 2
    /\ Len(measurements) = 6

\* C2 (as claimed): a SMART read or a VM agent query that fails does not end
\* the cycle: the program goes on and publishes a batch that holds one
\* measurement for every disk and VM whose command did not fail.
PerEntityFailures ==
    {i \in 1..Len(commands) :
        commands[i].cmd \in {"smartctl", "qm agent"} /\ commands[i].proc.rc # 0}
C2_PerEntityFailureNonFatal ==
    PerEntityFailures # {} =>
        /\ pc = "exited" => Returned
        /\ Returned =>
              Len(measurements) = Len(ExpectedSensors(Runs("sensors")[1].proc))
                  + Len(Runs("smartctl")) + Len(Runs("qm agent"))
                  - Cardinality(PerEntityFailures)

\* C3 (as claimed): a VM whose filesystem list is empty gets no measurement.
C3_EmptyFsinfoSkipped ==
    \A i \in 1..Len(commands) :
        (/\ commands[i].cmd = "qm agent"
         /\ commands[i].proc.rc = 0
         /\ commands[i].proc.stdout.valid
         /\ commands[i].proc.stdout.val = <<>>)
        => \A j \in 1..Len(measurements) :
               ~(/\ measurements[j].measurement = S_system
                 /\ dict_get(measurements[j].tags, "vmid") = commands[i].arg)

\* C4 (as claimed): malformed JSON from the sensor reader, a disk's SMART
\* reader or a VM's filesystem info never ends the cycle: a run whose last
\* command answered malformed JSON ends only after the batch was handed over.
C4_MalformedJsonNonFatal ==
    (/\ pc = "exited"
     /\ commands # <<>>
     /\ commands[Len(commands)].cmd \in {"sensors", "smartctl", "qm agent"}
     /\ IsMalformed(commands[Len(commands)]))
    => Returned

\* C5: an lsblk that fails or answers malformed JSON ends the program with
\* exit code 1 right there, nothing printed or uploaded; an enumeration of no
\* disk runs no SMART command, adds no SMART measurement and lets the cycle go
\* on to the next stage.
C5_DiskEnumeration ==
    \A i \in 1..Len(commands) :
        commands[i].cmd = "lsblk" =>
            LET found == get_disks(commands[i].proc)
            IN  /\ (commands[i].proc.rc # 0 \/ ~commands[i].proc.stdout.valid) =>
                      /\ pc = "exited" /\ outcome = "exit1"
                      /\ Len(commands) = i
                      /\ printed = <<>> /\ upload_calls = <<>>
                /\ (found.kind = "ok" /\ found.val = <<>>) =>
                      /\ Runs("smartctl") = <<>>
                      /\ \A j \in 1..Len(measurements) :
                            ~str_startswith(measurements[j].measurement, S_smartctl_dot)
                      /\ Len(commands) = i =>
                            /\ pc \in {"vms", "publish", "exited"}
                            /\ pc = "exited" => Returned

C5_Witness ==
    /\ pc = "exited" /\ outcome = "exit1"
    /\ Runs("lsblk") # <<>>
    /\ Runs("lsblk")[1].proc.rc = 0 /\ ~Runs("lsblk")[1].proc.stdout.valid

\* the three outcomes of main
DeleteOutcome ==
    /\ delete_calls = <<args.delete.name>>
    /\ commands = <<>> /\ measurements = <<>>
    /\ upload_calls = <<>> /\ printed = <<>>
PrintOutcome ==
    /\ Len(Runs("sensors")) = 1
    /\ printed = <<measurements>>
    /\ upload_calls = <<>> /\ delete_calls = <<>>
UploadOutcome ==
    /\ Len(Runs("sensors")) = 1
    /\ upload_calls = <<measurements>>
    /\ printed = <<>> /\ delete_calls = <<>>
AbortOutcome ==
    /\ Len(Runs("sensors")) = 1
    /\ outcome \in {"exit1", "raised"}
    /\ upload_calls = <<>> /\ printed = <<>> /\ delete_calls = <<>>

\* C6 (as claimed): a run of main ends in exactly one of three ways: with a
\* delete argument, one call of delete_measurement and nothing else; otherwise
\* one collection and then the batch printed (test mode) or uploaded once.
C6_ThreeOutcomes ==
    pc = "exited" =>
        IF args.delete.given THEN DeleteOutcome
        ELSE IF args.test THEN PrintOutcome
        ELSE UploadOutcome

\* C6 (amended): a run of main ends in exactly one of four ways: with a
\* non-empty delete argument, one call of delete_measurement with that name and
\* nothing collected or uploaded; otherwise collection starts once and either
\* ends the program itself, nothing printed or uploaded, or returns a batch
\* that is printed in test mode, upload_measurements never called, or handed
\* unchanged to upload_measurements exactly once.
C6_FourOutcomes ==
    pc = "exited" =>
        IF args.delete.given /\ args.delete.name # <<>> THEN DeleteOutcome
        ELSE IF ~Returned THEN AbortOutcome
        ELSE IF args.test THEN PrintOutcome
        ELSE UploadOutcome

C6_Witness ==
    /\ pc = "exited"
    /\ args.delete.given /\ args.delete.name = <<>>
    /\ ~args.test
    /\ upload_calls = <<measurements>> /\ Len(measurements) > 0

(* ------------------------ properties of the normalizers ---------------- *)
\* the readings of a chip in the order the loops meet them: <<grouping key, label>>
RECURSIVE ReadingsOf(_, _)
ReadingsOf(details, i) ==
    IF i > Len(details) THEN <<>>
    ELSE (IF details[i].k = S_Adapter THEN <<>>
          ELSE [j \in 1..Len(details[i].v) |-> <<details[i].k, details[i].v[j].k>>])
         \o ReadingsOf(details, i + 1)

\* a sequence without the repetitions of its earlier elements
RECURSIVE Dedup(_)
Dedup(s) ==
    IF Len(s) = 0 THEN <<>>
    ELSE LET front == Dedup(SubSeq(s, 1, Len(s) - 1))
         IN  IF \E i \in 1..Len(front) : front[i] = s[Len(s)] THEN front
             ELSE Append(front, s[Len(s)])

\* a finished call of parse_sensors_data on one chip
SensorCallDone ==
    norm_pc = "done" /\ norm_in.fn = "parse_sensors_data" /\ Len(norm_in.data) = 1
\* the chip of a sensor call and the field keys of its measurement
CalledChip == norm_in.data[1].v
FieldKeys == dict_keys(norm_out[1].fields)
OnlyReading(key, label) == ReadingsOf(CalledChip, 1) = <<<<key, label>>>>

\* C7 (as claimed): grouping key "temp1" with the one label "temp1_input"
\* gives the field key "temp1_input"; "Core 0" with "temp2_input" gives
\* "core_0_temp_input".
C7_Temp1KeptAsIs ==
    SensorCallDone =>
        /\ OnlyReading(S_temp1, L_temp1_input) => FieldKeys = <<E_temp1_input>>
        /\ OnlyReading(K_Core0, L_temp2_input) => FieldKeys = <<E_core_0_temp_input>>

\* C7 (amended): grouping key "temp1" with the one label "temp1_input" gives
\* the field key "temp_input", the index after "temp" stripped like everywhere
\* else; "Core 0" with "temp2_input" gives "core_0_temp_input".
C7_Temp1Stripped ==
    SensorCallDone =>
        /\ OnlyReading(S_temp1, L_temp1_input) => FieldKeys = <<E_temp_input>>
        /\ OnlyReading(K_Core0, L_temp2_input) => FieldKeys = <<E_core_0_temp_input>>

C7_Witness ==
    SensorCallDone /\ OnlyReading(S_temp1, L_temp1_input) /\ FieldKeys = <<E_temp_input>>

\* the reference of C8: the composed key ...
RefCompose(key, label) ==
    IF key = S_temp1 /\ str_contains(S_temp1, str_lower(label))
    THEN str_lower(label)
    ELSE str_lower(str_replace(key, " ", "_")) \o <<"_">> \o str_lower(label)

\* ... and the digits it loses: those of a run of digits that directly follows
\* "temp" and is directly followed by "_"
StrippedAt(s, i) ==
    \E lo \in 5..i, hi \in i..(Len(s) - 1) :
        /\ \A j \in lo..hi : s[j] \in Digits
        /\ SubSeq(s, lo - 4, lo - 1) = S_temp
        /\ s[hi + 1] = "_"
RefStrip(s) ==
    LET kept == {i \in 1..Len(s) : ~StrippedAt(s, i)}
    IN  [n \in 1..Cardinality(kept) |->
            s[CHOOSE i \in kept : Cardinality({j \in kept : j < i}) = n - 1]]

\* C8: the field keys of a chip's measurement are, reading by reading and in
\* order, the reference key of each reading of a grouping key other than
\* "Adapter": the composed key with every "temp<digits>_" turned into "temp_"
\* and every other digit left alone.
C8_FieldKeyReference ==
    SensorCallDone =>
        LET readings == ReadingsOf(CalledChip, 1)
        IN  FieldKeys =
                Dedup([i \in 1..Len(readings) |->
                          RefStrip(RefCompose(readings[i][1], readings[i][2]))])

C8_Witness ==
    SensorCallDone /\ OnlyReading(K_Core0, L_temp12_crit)
    /\ FieldKeys = <<E_core_0_temp_crit>>

\* the number of distinct readings of the input of a normalizer call
RECURSIVE NvmeReadingCount(_, _)
NvmeReadingCount(log, i) ==
    IF i > Len(log) THEN 0
    ELSE (IF log[i].v.t = "list" THEN Len(log[i].v.items) ELSE 1)
         + NvmeReadingCount(log, i + 1)
\* a finished call that returned one measurement of a chip or a disk
OneMeasurementDone ==
    SensorCallDone \/ (norm_pc = "done" /\ norm_in.fn = "parse_smartctl_data")
ReadingCount ==
    IF norm_in.fn = "parse_sensors_data" THEN Len(ReadingsOf(CalledChip, 1))
    ELSE IF SubSeq(norm_in.disk, 1, 4) = S_nvme
    THEN (IF dict_has(norm_in.data, S_nvme_log)
          THEN NvmeReadingCount(dict_get(norm_in.data, S_nvme_log), 1) ELSE 0)
    ELSE (IF dict_has(norm_in.data, S_ata_attrs)
          THEN Len(dict_get(dict_get(norm_in.data, S_ata_attrs), S_table)) ELSE 0)

\* C9 (as claimed): a measurement has as many fields as its input has distinct
\* readings: no two readings end under the same field key.
C9_NoKeyCollision ==
    OneMeasurementDone => Len(norm_out[1].fields) = ReadingCount

\* C10 (as claimed): no field key holds a space or an upper-case letter.
C10_KeysLowerNoSpace ==
    OneMeasurementDone =>
        \A i \in 1..Len(norm_out[1].fields) :
            LET key == norm_out[1].fields[i].k
            IN  \A j \in 1..Len(key) :
                    key[j] # " " /\ ~(\E u \in 1..26 : Uppers[u] = key[j])

(* ------------------- field values of the SMART normalizers -------------- *)
E_temperature_celsius == <<"t", "e", "m", "p", "e", "r", "a", "t", "u", "r", "e", "_", "c", "e", "l", "s", "i", "u", "s">>
E_power_on_hours == <<"p", "o", "w", "e", "r", "_", "o", "n", "_", "h", "o", "u", "r", "s">>
E_temperature_sensors_2 == <<"t", "e", "m", "p", "e", "r", "a", "t", "u", "r", "e", "_", "s", "e", "n", "s", "o", "r", "s", "_", "2">>

\* the measurements a finished normalizer call returned
NormMeasurements ==
    IF norm_in.fn = "get_vms" THEN <<>>
    ELSE IF norm_in.fn = "parse_vm_disk_data"
    THEN (IF norm_out.kind = "ok" THEN <<norm_out.val>> ELSE <<>>)
    ELSE norm_out

IsNumber(v) == v.t \in {"int", "float"}

\* C11 (as claimed): every field value of every measurement a normalizer
\* returns is a number, whatever the types of the values it was given.
C11_FieldValuesNumeric ==
    norm_pc = "done" =>
        \A i \in 1..Len(NormMeasurements) :
            \A j \in 1..Len(NormMeasurements[i].fields) :
                IsNumber(NormMeasurements[i].fields[j].v)

\* a name that begins with the four characters n, v, m, e
IsNvmeName(d) == Len(d) >= 4 /\ d[1] = "n" /\ d[2] = "v" /\ d[3] = "m" /\ d[4] = "e"

SataCallDone ==
    norm_pc = "done" /\ norm_in.fn = "parse_smartctl_data" /\ ~IsNvmeName(norm_in.disk)
NvmeCallDone ==
    norm_pc = "done" /\ norm_in.fn = "parse_smartctl_data" /\ IsNvmeName(norm_in.disk)
\* the attribute table and the health log of the report a call was given
CalledTable ==
    IF dict_has(norm_in.data, S_ata_attrs)
    THEN dict_get(dict_get(norm_in.data, S_ata_attrs), S_table) ELSE <<>>
CalledLog ==
    IF dict_has(norm_in.data, S_nvme_log) THEN dict_get(norm_in.data, S_nvme_log)
    ELSE <<>>
SmartFields == norm_out[1].fields

\* the reference of C12: the key of an attribute name ...
RefSataKey(name) ==
    [i \in 1..Len(name) |-> IF name[i] = "-" THEN "_" ELSE LowerChar(name[i])]
HasDigit(s) == \E i \in 1..Len(s) : s[i] \in Digits
\* ... and the number its first run of digits spells
RECURSIVE RefRunValue(_, _, _)
RefRunValue(s, lo, hi) ==
    IF hi < lo THEN 0 ELSE 10 * RefRunValue(s, lo, hi - 1) + DigitValue(s[hi])
RefFirstNumber(s) ==
    LET lo == CHOOSE i \in 1..Len(s) :
                  s[i] \in Digits /\ \A j \in 1..(i - 1) : s[j] \notin Digits
        hi == CHOOSE k \in lo..Len(s) :
                  /\ \A j \in lo..k : s[j] \in Digits
                  /\ (k = Len(s) \/ s[k + 1] \notin Digits)
    IN  RefRunValue(s, lo, hi)
\* the record at i is the last one of the table to write its key
LastOfKey(table, i) ==
    \A j \in (i + 1)..Len(table) :
        RefSataKey(table[j].name) # RefSataKey(table[i].name)

\* C12: the fields of a SATA measurement are keyed by the lower-cased attribute
\* names with "-" turned into "_", every record has its key, and the value
\* under a key is chosen by the id of the last record that wrote it: for 194
\* with a digit in the raw display string the first run of digits as a float,
\* for 202 the normalized value, for any other id the raw numeric value.
C12_SataValueById ==
    SataCallDone =>
        LET table == CalledTable
        IN  /\ \A j \in 1..Len(SmartFields) :
                   \E i \in 1..Len(table) : SmartFields[j].k = RefSataKey(table[i].name)
            /\ \A i \in 1..Len(table) :
                   LET a   == table[i]
                       key == RefSataKey(a.name)
                   IN  /\ dict_has(SmartFields, key)
                       /\ LastOfKey(table, i) =>
                              LET v == dict_get(SmartFields, key)
                              IN  /\ (a.id = 194 /\ HasDigit(a.raw.string))
                                         => v = JFloat(RefFirstNumber(a.raw.string))
                                  /\ a.id = 202 => v = a.value
                                  /\ a.id \notin {194, 202} => v = a.raw.value

C12_Witness ==
    /\ SataCallDone
    /\ Len(CalledTable) = 2 /\ CalledTable[2].id = 202
    /\ SmartFields = <<Item(E_temperature_celsius, JFloat(41)),
                       Item(E_power_on_hours, JInt(59))>>

\* the reference of C13: what the attributes of a health log write, in order
RefIndex(i) == <<<<"1">>, <<"2">>, <<"3">>, <<"4">>, <<"5">>, <<"6">>, <<"7">>, <<"8">>, <<"9">>>>[i]
RECURSIVE RefNvmeWrites(_)
RefNvmeWrites(log) ==
    IF log = <<>> THEN <<>>
    ELSE LET a == Head(log)
         IN  (IF a.v.t = "list"
              THEN [j \in 1..Len(a.v.items) |->
                       Item(a.k \o <<"_">> \o RefIndex(j), a.v.items[j])]
              ELSE <<Item(a.k, a.v)>>)
             \o RefNvmeWrites(Tail(log))

\* C13: the fields of an NVMe measurement are what the attributes of the
\* health log write, in order: a scalar its own name and value, a list of
\* length k the k keys "<attribute>_1" .. "<attribute>_k" with its elements,
\* and nothing under the list's bare name; a key written twice keeps its place
\* and takes the later value; without a health log there is no field.
C13_NvmeFields ==
    NvmeCallDone =>
        LET writes == RefNvmeWrites(CalledLog)
        IN  /\ dict_keys(SmartFields) = Dedup([i \in 1..Len(writes) |-> writes[i].k])
            /\ \A i \in 1..Len(writes) :
                   (\A j \in (i + 1)..Len(writes) : writes[j].k # writes[i].k)
                       => dict_get(SmartFields, writes[i].k) = writes[i].v
            /\ \A i \in 1..Len(CalledLog) :
                   (/\ CalledLog[i].v.t = "list"
                    /\ \A j \in 1..Len(writes) : writes[j].k # CalledLog[i].k)
                       => ~dict_has(SmartFields, CalledLog[i].k)
            /\ ~dict_has(norm_in.data, S_nvme_log) => SmartFields = <<>>

C13_Witness ==
    /\ NvmeCallDone
    /\ SmartFields = <<Item(A_temperature, JInt(5)),
                       Item(A_temperature_sensors_1, JInt(48)),
                       Item(E_temperature_sensors_2, JInt(61))>>

(* ----------------------- the disk name of the SMART loop ---------------- *)
E_smartctl_nvme0 == <<"s", "m", "a", "r", "t", "c", "t", "l", ".", "n", "v", "m", "e", "0">>

\* the reference of C14: a namespace suffix is a final "n" with digits after it
HasNamespaceSuffix(d) ==
    \E k \in 1..(Len(d) - 1) :
        d[k] = "n" /\ \A j \in (k + 1)..Len(d) : d[j] \in Digits
WithoutNamespaceSuffix(d) ==
    LET k == CHOOSE k \in 1..(Len(d) - 1) :
                 d[k] = "n" /\ \A j \in (k + 1)..Len(d) : d[j] \in Digits
    IN  SubSeq(d, 1, k - 1)

\* C14: a pass of the SMART loop queries the enumerated disk under its name
\* without the namespace suffix when the name begins with "nvme" ("nvme0" for
\* "nvme0n1") and under its own name otherwise, and the measurement the pass
\* adds is named "smartctl." followed by the very name that was queried.
C14_NvmeNameTrimmed ==
    [][(pc = "smart" /\ commands' # commands) =>
          LET disk == Head(disks)
              ran  == commands'[Len(commands')]
          IN  /\ ran.cmd = "smartctl"
              /\ (IsNvmeName(disk) /\ HasNamespaceSuffix(disk))
                     => ran.arg = WithoutNamespaceSuffix(disk)
              /\ ~IsNvmeName(disk) => ran.arg = disk
              /\ measurements' # measurements =>
                     /\ Len(measurements') = Len(measurements) + 1
                     /\ measurements'[Len(measurements')].measurement
                            = S_smartctl_dot \o ran.arg]_vars

C14_Witness ==
    /\ \E i \in 1..Len(commands) :
           /\ commands[i].cmd = "lsblk"
           /\ get_disks(commands[i].proc) = Ok(<<D_sda, D_nvme0n1>>)
    /\ Len(Runs("smartctl")) = 2
    /\ Runs("smartctl")[1].arg = D_sda
    /\ Runs("smartctl")[2].arg = D_nvme0
    /\ Len(measurements) >= 2
    /\ measurements[Len(measurements)].measurement = E_smartctl_nvme0

(* ---------------------------- the VM disk measurement ------------------- *)
VmDiskCallDone == norm_pc = "done" /\ norm_in.fn = "parse_vm_disk_data"
\* the reference of C15: the records that are "sda1" mounted at "/" ...
RootFilesystems ==
    SelectSeq(norm_in.data.val,
              LAMBDA f : f.name = S_sda1 /\ f.mountpoint = S_slash)
\* ... and the bytes they use, all together
RECURSIVE SumUsedBytes(_)
SumUsedBytes(fs) ==
    IF fs = <<>> THEN 0 ELSE Head(fs).used_bytes + SumUsedBytes(Tail(fs))

\* C15: parse_vm_disk_data returns the measurement "system" whose one field
\* "disk" is the float sum of used-bytes over the records that have both the
\* name "sda1" and the mount point "/", with the tags host = VM name,
\* nodename = physical host, object = "qemu", vmid = VM id and no other.
C15_VmDiskMeasurement ==
    VmDiskCallDone =>
        norm_out = Ok([measurement |-> S_system,
                       tags |-> <<Item("host", norm_in.vm[2]),
                                  Item("nodename", norm_in.host),
                                  Item("object", S_qemu),
                                  Item("vmid", norm_in.vm[1])>>,
                       fields |-> <<Item(S_disk, JFloat(SumUsedBytes(RootFilesystems)))>>])

C15_Witness ==
    /\ VmDiskCallDone
    /\ norm_in.data.val = <<[name |-> S_sda1, mountpoint |-> F_boot_efi, used_bytes |-> 12],
                            [name |-> S_sda1, mountpoint |-> S_slash, used_bytes |-> 24]>>
    /\ norm_out.val.fields = <<Item(S_disk, JFloat(24))>>

(* ------------------------ normalizing a key twice ----------------------- *)
E_temp_temp_crit == <<"t", "e", "m", "p", "_", "t", "e", "m", "p", "_", "c", "r", "i", "t">>

\* C16: turning "temp<digits>_" into "temp_" a second time changes nothing:
\* every field key of a sensors measurement is left as it is by the
\* substitution that produced it, and so is the substituted form of the
\* composed key of every reading.
C16_NormalizeIdempotent ==
    (norm_pc = "done" /\ norm_in.fn = "parse_sensors_data") =>
        /\ \A i \in 1..Len(norm_out) :
               \A j \in 1..Len(norm_out[i].fields) :
                   re_sub_temp(norm_out[i].fields[j].k) = norm_out[i].fields[j].k
        /\ \A c \in 1..Len(norm_in.data) :
               LET readings == ReadingsOf(norm_in.data[c].v, 1)
               IN  \A i \in 1..Len(readings) :
                       LET k == RefCompose(readings[i][1], readings[i][2])
                       IN  re_sub_temp(re_sub_temp(k)) = re_sub_temp(k)

C16_Witness ==
    SensorCallDone /\ OnlyReading(K_Temp1, L_temp12_crit)
    /\ FieldKeys = <<E_temp_temp_crit>>

(* --------------------------- one measurement per chip ------------------- *)
E_sensors_coretemp == <<"s", "e", "n", "s", "o", "r", "s", ".", "c", "o", "r", "e", "t", "e", "m", "p">>
E_sensors_k10temp == <<"s", "e", "n", "s", "o", "r", "s", ".", "k", "1", "0", "t", "e", "m", "p">>

\* the reference of C17: what stands before the first hyphen, all of it
\* without a hyphen
BeforeFirstHyphen(s) ==
    IF \E i \in 1..Len(s) : s[i] = "-"
    THEN SubSeq(s, 1, (CHOOSE i \in 1..Len(s) :
                           s[i] = "-" /\ \A j \in 1..(i - 1) : s[j] # "-") - 1)
    ELSE s

\* C17: parse_sensors_data returns one measurement per chip, in the order of
\* the chips, also for a chip without readings, whose field map is empty; the
\* measurement of a chip is named "sensors." followed by the chip identifier
\* up to its first hyphen, its tags are host and adapter (the chip's "Adapter"
\* value) and no other, and no field is keyed "Adapter".
C17_OneMeasurementPerChip ==
    (norm_pc = "done" /\ norm_in.fn = "parse_sensors_data") =>
        /\ Len(norm_out) = Len(norm_in.data)
        /\ \A i \in 1..Len(norm_in.data) :
               LET chip == norm_in.data[i]
                   m    == norm_out[i]
               IN  /\ m.measurement = S_sensors_dot \o BeforeFirstHyphen(chip.k)
                   /\ m.tags = <<Item("host", norm_in.host),
                                 Item("adapter", dict_get(chip.v, S_Adapter))>>
                   /\ \A j \in 1..Len(m.fields) : m.fields[j].k # S_Adapter
                   /\ ReadingsOf(chip.v, 1) = <<>> <=> m.fields = <<>>

C17_Witness ==
    /\ norm_pc = "done" /\ norm_in.fn = "parse_sensors_data"
    /\ Len(norm_in.data) = 2
    /\ norm_out[1].measurement = E_sensors_k10temp /\ norm_out[1].fields = <<>>
    /\ norm_out[2].measurement = E_sensors_coretemp /\ norm_out[2].fields # <<>>

(* ------------------------ the choice of the extractor ------------------- *)
\* C18: parse_smartctl_data gives what the NVMe extractor gives when the disk
\* name begins with "nvme" and what the SATA extractor gives otherwise; either
\* way, and for a report without SMART data, it is one measurement named
\* "smartctl." followed by the disk name, with the one tag host.
C18_DispatchByPrefix ==
    (norm_pc = "done" /\ norm_in.fn = "parse_smartctl_data") =>
        /\ norm_out =
               <<IF IsNvmeName(norm_in.disk)
                 THEN parse_nvme_smartctl_data(norm_in.host, norm_in.disk, norm_in.data)
                 ELSE parse_sata_smartctl_data(norm_in.host, norm_in.disk, norm_in.data)>>
        /\ IsNvmeName(norm_in.disk) =>
               \A j \in 1..Len(SmartFields) :
                   \E i \in 1..Len(RefNvmeWrites(CalledLog)) :
                       SmartFields[j].k = RefNvmeWrites(CalledLog)[i].k
        /\ ~IsNvmeName(norm_in.disk) =>
               \A j \in 1..Len(SmartFields) :
                   \E i \in 1..Len(CalledTable) :
                       SmartFields[j].k = RefSataKey(CalledTable[i].name)
        /\ norm_out[1].measurement = S_smartctl_dot \o norm_in.disk
        /\ norm_out[1].tags = <<Item("host", norm_in.host)>>

C18_Witness ==
    /\ norm_pc = "done" /\ norm_in.fn = "parse_smartctl_data"
    /\ norm_in.disk = D_xnvme0
    /\ dict_has(norm_in.data, S_nvme_log) /\ dict_has(norm_in.data, S_ata_attrs)
    /\ dict_keys(SmartFields) = <<E_temperature_celsius, E_power_on_hours>>

(* -------------------- a temperature without a digit --------------------- *)
\* no other record of the table writes the key of the record at i
AloneOnKey(table, i) ==
    \A j \in 1..Len(table) :
        j # i => RefSataKey(table[j].name) # RefSataKey(table[i].name)

\* C19 (as claimed): an attribute with id 194 whose raw display string holds
\* no digit leaves no field behind.
C19_NoDigitNoField ==
    SataCallDone =>
        \A i \in 1..Len(CalledTable) :
            (/\ CalledTable[i].id = 194
             /\ ~HasDigit(CalledTable[i].raw.string)
             /\ AloneOnKey(CalledTable, i))
                => ~dict_has(SmartFields, RefSataKey(CalledTable[i].name))

\* C19 (amended): an attribute with id 194 whose raw display string holds no
\* digit falls back to the raw numeric value: the call returns its measurement
\* and the field of the attribute holds raw.value.
C19_NoDigitRawValue ==
    SataCallDone =>
        /\ Len(norm_out) = 1
        /\ \A i \in 1..Len(CalledTable) :
               (/\ CalledTable[i].id = 194
                /\ ~HasDigit(CalledTable[i].raw.string)
                /\ LastOfKey(CalledTable, i))
                   => /\ dict_has(SmartFields, RefSataKey(CalledTable[i].name))
                      /\ dict_get(SmartFields, RefSataKey(CalledTable[i].name))
                             = CalledTable[i].raw.value

C19_Witness ==
    /\ SataCallDone
    /\ Len(CalledTable) = 1
    /\ CalledTable[1].id = 194 /\ CalledTable[1].raw.string = R_dash
    /\ SmartFields = <<Item(E_temperature_celsius, JInt(188))>>

(* ------------------------------ running VMs ----------------------------- *)
\* the reference of C20: the rows of the listing whose status is "running"
RunningRows == SelectSeq(norm_in.rows, LAMBDA row : row.status = S_running)

\* C20 (as claimed): get_vms returns the (id, name) pair of a listed VM if and
\* only if its status is running, in the order of the listing, and never the
\* header line.
C20_OnlyRunningReturned ==
    (norm_pc = "done" /\ norm_in.fn = "get_vms") =>
        norm_out = Ok([i \in 1..Len(RunningRows) |->
                          <<RunningRows[i].id, RunningRows[i].name>>])

(* ------------------- the trimmed name of an NVMe disk ------------------- *)
\* C21 (as claimed): a pass of the SMART loop over a disk whose name begins
\* with "nvme", with a namespace suffix or without one, queries a name that is
\* not empty and still begins with "nvme", and the measurement it adds is not
\* named "smartctl." with nothing after it.
C21_TrimmedNameIsNvme ==
    [][(pc = "smart" /\ commands' # commands /\ IsNvmeName(Head(disks))) =>
          LET ran == commands'[Len(commands')]
          IN  /\ ran.arg # <<>>
              /\ IsNvmeName(ran.arg)
              /\ measurements' # measurements =>
                     measurements'[Len(measurements')].measurement # S_smartctl_dot]_vars

====
